---------------------------- MODULE Spec2Model ----------------------------
(***************************************************************************)
(* Model of the repository-metrics runner (461-project/src/run.ts) and of  *)
(* its bus-factor evaluator (461-project/src/busfactor.ts).                *)
(*                                                                         *)
(* Units.  Metric values are kept in hundredths (0.25 is 25, 1 is 100, the *)
(* failure sentinel -1 stays -1), the weights in hundredths (0.40 is 40),  *)
(* so a NetScore is kept in ten-thousandths (1.00 is 10000).  Clock        *)
(* readings are milliseconds and are multiples of MsPerSecond, so that a   *)
(* latency (end - start) / 1000 is a whole number of seconds.              *)
(*                                                                         *)
(* The percentage test of the bus-factor loop is computed in IEEE-754      *)
(* binary64 with round-to-nearest-even, as JavaScript computes it: a       *)
(* double is a record holding its 53 significand bits (most significant    *)
(* first) and the exponent of its last bit.                                *)
(***************************************************************************)
EXTENDS Integers, Sequences, FiniteSets, TLC

VARIABLES
    \* run.ts
    pc,             \* the process: "start", "installing", "awaiting", "exited"
    exitCode,       \* the code given to process.exit, once pc = "exited"
    tokenPromise,   \* the promise validateToken returned: "none", "pending", "true", "false"
    urls,           \* run.ts:38, the lines of the URL file that are not empty
    idx,            \* the position of the loop of run.ts:43 in urls
    evals,          \* for each url, the promise of each of its five evaluators
    stdout,         \* the records written by console.log, in order
    stderr,         \* what console.error reported, in order
    \* run.ts:63-88 on its own
    agg_pc,         \* "idle", "done"
    agg_results,    \* the five values Promise.all resolved to
    agg_record,     \* the record built from them
    \* busfactor.ts
    bf_pc,          \* calculateBusFactor: "idle", "awaiting", "returned", "rejected"
    bf_threshold,   \* its threshold argument
    bf_response,    \* what octokit.repos.listContributors settled with
    bf_startTime,   \* busfactor.ts:18
    bf_busFactor,   \* the local busFactor when the function is left
    bf_result,      \* the metricResult the returned promise resolves to
    now             \* performance.now(), milliseconds

runvars == <<pc, exitCode, tokenPromise, urls, idx, evals, stdout, stderr>>

aggvars == <<agg_pc, agg_results, agg_record>>

bfvars == <<bf_pc, bf_threshold, bf_response, bf_startTime, bf_busFactor, bf_result>>

vars == <<pc, exitCode, tokenPromise, urls, idx, evals, stdout, stderr,
          agg_pc, agg_results, agg_record,
          bf_pc, bf_threshold, bf_response, bf_startTime, bf_busFactor, bf_result, now>>

(***************************************************************************)
(* Bounds                                                                  *)
(***************************************************************************)
MaxContributors == 3
MaxCommits == 3
MaxTicks == 1
MaxLines == 2
MaxLatency == 1

(***************************************************************************)
(* Program constants                                                       *)
(***************************************************************************)
MsPerSecond == 1000
SENTINEL == -1
DefaultThreshold == 50
MantissaBits == 53
Percent == 100

(***************************************************************************)
(* Small helpers                                                           *)
(***************************************************************************)
RECURSIVE SumSeq(_)
SumSeq(s) == IF s = <<>> THEN 0 ELSE Head(s) + SumSeq(Tail(s))

Front(s) == SubSeq(s, 1, Len(s) - 1)

Last(s) == s[Len(s)]

RECURSIVE Zeros(_)
Zeros(n) == IF n <= 0 THEN <<>> ELSE <<0>> \o Zeros(n - 1)

RECURSIVE Pow2(_)
Pow2(n) == IF n <= 0 THEN 1 ELSE 2 * Pow2(n - 1)

RECURSIVE NatToBits(_)
NatToBits(n) == IF n = 0 THEN <<>> ELSE NatToBits(n \div 2) \o <<n % 2>>

RECURSIVE BitsToNat(_)
BitsToNat(b) == IF b = <<>> THEN 0 ELSE 2 * BitsToNat(Front(b)) + Last(b)

(***************************************************************************)
(* IEEE-754 binary64 arithmetic on the operands the bus-factor loop uses   *)
(***************************************************************************)
NaN == [kind |-> "nan", m |-> <<>>, e |-> 0]

Zero == [kind |-> "zero", m |-> <<>>, e |-> 0]

Infinity == [kind |-> "inf", m |-> <<>>, e |-> 0]

RECURSIVE Increment(_)
Increment(b) ==
    IF b = <<>> THEN <<1>>
    ELSE IF Last(b) = 0 THEN Front(b) \o <<1>>
    ELSE Increment(Front(b)) \o <<0>>

\* bits: an exact positive binary number (leading bit 1) whose last bit has
\* exponent e, with any bits beyond it summarised in the trailing positions.
\* The nearest double, ties to even.
RoundToDouble(bits, e) ==
    LET L == Len(bits) IN
    IF L <= MantissaBits
    THEN [kind |-> "num", m |-> bits \o Zeros(MantissaBits - L), e |-> e - (MantissaBits - L)]
    ELSE LET keep == SubSeq(bits, 1, MantissaBits)
             rest == SubSeq(bits, MantissaBits + 1, L)
             half == rest[1] = 1
             sticky == \E i \in 2..Len(rest) : rest[i] = 1
             up == half /\ (sticky \/ keep[MantissaBits] = 1)
             inc == Increment(keep)
             e2 == e + (L - MantissaBits)
         IN  IF ~up THEN [kind |-> "num", m |-> keep, e |-> e2]
             ELSE IF Len(inc) = MantissaBits THEN [kind |-> "num", m |-> inc, e |-> e2]
             ELSE [kind |-> "num", m |-> SubSeq(inc, 1, MantissaBits), e |-> e2 + 1]

RECURSIVE DivBits(_, _, _)
DivBits(r, t, n) ==
    IF n = 0 THEN <<>>
    ELSE IF 2 * r >= t THEN <<1>> \o DivBits(2 * r - t, t, n - 1)
    ELSE <<0>> \o DivBits(2 * r, t, n - 1)

RECURSIVE DivRem(_, _, _)
DivRem(r, t, n) ==
    IF n = 0 THEN r
    ELSE IF 2 * r >= t THEN DivRem(2 * r - t, t, n - 1)
    ELSE DivRem(2 * r, t, n - 1)

RECURSIVE ShiftFor(_, _)
ShiftFor(c, t) == IF c >= t THEN 0 ELSE 1 + ShiftFor(2 * c, t)

\* c / t in binary64, for integers 0 <= c <= t (both exact as doubles).
FDiv(c, t) ==
    IF t = 0 THEN (IF c = 0 THEN NaN ELSE Infinity)
    ELSE IF c = 0 THEN Zero
    ELSE LET sh == ShiftFor(c, t)
             r0 == c * Pow2(sh) - t
             frac == DivBits(r0, t, MantissaBits - 1)
             r1 == DivRem(r0, t, MantissaBits - 1)
             guard == DivBits(r1, t, 1)
             r2 == DivRem(r1, t, 1)
             stick == IF r2 > 0 THEN <<1>> ELSE <<0>>
         IN  RoundToDouble(<<1>> \o frac \o guard \o stick, (0 - sh) - (MantissaBits - 1) - 2)

RECURSIVE MulBits(_, _, _)
MulBits(b, k, carry) ==
    IF b = <<>> THEN NatToBits(carry)
    ELSE LET v == Last(b) * k + carry
         IN  IF v % 2 = 0 THEN MulBits(Front(b), k, v \div 2) \o <<0>>
             ELSE MulBits(Front(b), k, v \div 2) \o <<1>>

\* f * k in binary64, for a small positive integer k.
FMulNat(f, k) ==
    IF f.kind # "num" THEN f
    ELSE RoundToDouble(MulBits(f.m, k, 0), f.e)

\* f >= t for an integer t >= 0; every comparison with NaN is false.
FGe(f, t) ==
    CASE f.kind = "nan" -> FALSE
      [] f.kind = "inf" -> TRUE
      [] f.kind = "zero" -> 0 >= t
      [] OTHER ->
           LET nInt == MantissaBits + f.e IN
           IF f.e >= 0 THEN TRUE
           ELSE IF nInt <= 0 THEN 0 >= t
           ELSE BitsToNat(SubSeq(f.m, 1, nInt)) >= t

(***************************************************************************)
(* calculateBusFactor (busfactor.ts)                                       *)
(*                                                                         *)
(* A response of octokit.repos.listContributors is a record: kind "error"  *)
(* (the call rejects, whatever the error), "nodata" (it resolves without a *)
(* data array) or "list" (data is the sequence of entries).  An entry is   *)
(* "ok" (contributions is the number n), "nocount" (contributions is       *)
(* undefined) or "null" (the entry itself is null).  login is carried into *)
(* the mapped record and never read, and is left out.                      *)
(*                                                                         *)
(* A commit count after the map is a JavaScript number: [nan, n], the      *)
(* integer n or NaN.                                                       *)
(***************************************************************************)
Entry(n) == [kind |-> "ok", n |-> n]

NoCountEntry == [kind |-> "nocount", n |-> 0]

NullEntry == [kind |-> "null", n |-> 0]

ErrorResponse == [kind |-> "error", data |-> <<>>]

NoDataResponse == [kind |-> "nodata", data |-> <<>>]

ListResponse(entries) == [kind |-> "list", data |-> entries]

Num(n) == [nan |-> FALSE, n |-> n]

NaNNum == [nan |-> TRUE, n |-> 0]

\* a + b on JavaScript numbers (number + undefined is NaN).
JSAdd(a, b) == IF a.nan \/ b.nan THEN NaNNum ELSE Num(a.n + b.n)

\* busfactor.ts:23-31: the await and the map; threw says whether an
\* exception was raised inside the try block.
MapContributors(response) ==
    IF response.kind # "list" THEN [threw |-> TRUE, contributors |-> <<>>]
    ELSE IF \E i \in 1..Len(response.data) : response.data[i].kind = "null"
    THEN [threw |-> TRUE, contributors |-> <<>>]
    ELSE [threw |-> FALSE,
          contributors |-> [i \in 1..Len(response.data) |->
                               IF response.data[i].kind = "ok"
                               THEN Num(response.data[i].n) ELSE NaNNum]]

HasNaN(contributors) == \E i \in 1..Len(contributors) : contributors[i].nan

\* x goes after every element that is not smaller: the sort is stable.
RECURSIVE InsertDesc(_, _)
InsertDesc(x, s) ==
    IF s = <<>> THEN <<x>>
    ELSE IF Head(s).n >= x.n THEN <<Head(s)>> \o InsertDesc(x, Tail(s))
    ELSE <<x>> \o s

RECURSIVE SortFrom(_, _)
SortFrom(done, rest) ==
    IF rest = <<>> THEN done
    ELSE SortFrom(InsertDesc(Head(rest), done), Tail(rest))

\* A sort that was forgotten.
SortDescMissing(contributors) == contributors

\* busfactor.ts:34.  With a NaN among the counts the comparator returns NaN
\* and the resulting order is implementation-defined; nothing below reads the
\* order then (the total is NaN), and the list is left as it is.
SortDesc(contributors) ==
    IF HasNaN(contributors) THEN contributors ELSE SortFrom(<<>>, contributors)

\* busfactor.ts:37
RECURSIVE TotalCommits(_)
TotalCommits(contributors) ==
    IF contributors = <<>> THEN Num(0)
    ELSE JSAdd(TotalCommits(Front(contributors)), Last(contributors))

\* busfactor.ts:45: (cumulativeCommits / totalCommits) * 100
Percentage(cumulativeCommits, totalCommits) ==
    IF cumulativeCommits.nan \/ totalCommits.nan THEN NaN
    ELSE FMulNat(FDiv(cumulativeCommits.n, totalCommits.n), Percent)

\* busfactor.ts:48
ReachesThreshold(percentage, threshold) == FGe(percentage, threshold)

\* busfactor.ts:40-51: the loop from position i on; its value is busFactor
\* when the loop is left.
RECURSIVE Walk(_, _, _, _, _, _)
Walk(sorted, totalCommits, threshold, i, cumulativeCommits, busFactor) ==
    IF i > Len(sorted) THEN busFactor
    ELSE LET cum == JSAdd(cumulativeCommits, sorted[i])
         IN  IF ReachesThreshold(Percentage(cum, totalCommits), threshold)
             THEN busFactor + 1
             ELSE Walk(sorted, totalCommits, threshold, i + 1, cum, busFactor + 1)

\* busfactor.ts:19-51: the raw bus-factor number of a contributor list.
RawBusFactor(contributors, threshold) ==
    LET sorted == SortDesc(contributors)
    IN  Walk(sorted, TotalCommits(sorted), threshold, 1, Num(0), 0)

\* The scale with its first band one contributor short.
ScaleBusFactorStrict(busFactor) ==
    IF busFactor < 2 THEN 0
    ELSE IF busFactor <= 4 THEN 25
    ELSE IF busFactor <= 6 THEN 50
    ELSE IF busFactor <= 8 THEN 75
    ELSE 100

\* busfactor.ts:67-80, in hundredths.
ScaleBusFactor(busFactor) ==
    IF busFactor <= 2 THEN 0
    ELSE IF busFactor <= 4 THEN 25
    ELSE IF busFactor <= 6 THEN 50
    ELSE IF busFactor <= 8 THEN 75
    ELSE 100

\* busfactor.ts:82-83, in seconds.
Latency(startTime, endTime) == (endTime - startTime) \div MsPerSecond

\* A catch block that reports the elapsed time beside the failed value.
CatchResultWithLatency(startTime, endTime) ==
    [busfactor |-> SENTINEL, busfactory_latency |-> Latency(startTime, endTime)]

\* busfactor.ts:56-65: what the catch block returns.
CatchResult(startTime, endTime) ==
    [busfactor |-> SENTINEL, busfactory_latency |-> SENTINEL]

\* busfactor.ts:85-88
ReturnResult(busFactor, startTime, endTime) ==
    [busfactor |-> ScaleBusFactor(busFactor),
     busfactory_latency |-> Latency(startTime, endTime)]

\* busfactor.ts:21-65: whether the exception raised inside the try block is
\* caught there (it always is: the catch clause is unconditional).
CaughtInTry(response) == TRUE

\* The whole of calculateBusFactor after its await: how the returned promise
\* settles, the promise's value, and the local busFactor.
CalculateBusFactor(response, threshold, startTime, endTime) ==
    LET mapped == MapContributors(response)
    IN  IF mapped.threw
        THEN IF CaughtInTry(response)
             THEN [settled |-> "resolved", busFactor |-> 0,
                   value |-> CatchResult(startTime, endTime)]
             ELSE [settled |-> "rejected", busFactor |-> 0,
                   value |-> CatchResult(startTime, endTime)]
        ELSE LET raw == RawBusFactor(mapped.contributors, threshold)
             IN  [settled |-> "resolved", busFactor |-> raw,
                  value |-> ReturnResult(raw, startTime, endTime)]

(***************************************************************************)
(* Inputs of the bus-factor evaluator                                      *)
(***************************************************************************)
RECURSIVE SeqsUpTo(_, _)
SeqsUpTo(S, n) ==
    IF n = 0 THEN {<<>>}
    ELSE LET shorter == SeqsUpTo(S, n - 1)
         IN  shorter \cup {Append(s, x) : s \in {t \in shorter : Len(t) = n - 1}, x \in S}

Entries(counts) == [i \in 1..Len(counts) |-> Entry(counts[i])]

\* Every list of at most MaxContributors entries with 0..MaxCommits commits.
SmallLists == {Entries(c) : c \in SeqsUpTo(0..MaxCommits, MaxContributors)}

\* The lists of the documented examples, and one whose top share is 58%.
ExampleLists ==
    { Entries(<<60, 25, 15>>),
      Entries(<<10, 10, 10, 10, 10, 10, 10, 10, 10, 10>>),
      Entries(<<15, 60, 25>>),
      Entries(<<21, 29>>) }

MalformedLists ==
    { <<NullEntry>>, <<Entry(2), NullEntry>>, <<NoCountEntry>>,
      <<Entry(2), NoCountEntry, Entry(1)>> }

NumericLists == SmallLists \cup ExampleLists

Responses ==
    {ErrorResponse, NoDataResponse}
        \cup {ListResponse(l) : l \in NumericLists \cup MalformedLists}

Thresholds == {1, 25, 33, DefaultThreshold, 58, 67, 90, 100}

ClockValues == {k * MsPerSecond : k \in 0..MaxTicks}

NoResult == [busfactor |-> 0, busfactory_latency |-> 0]

(***************************************************************************)
(* The evaluator as a state machine                                        *)
(***************************************************************************)
BFIdle ==
    /\ bf_pc = "idle"
    /\ bf_threshold = DefaultThreshold
    /\ bf_response = NoDataResponse
    /\ bf_startTime = 0
    /\ bf_busFactor = 0
    /\ bf_result = NoResult

\* busfactor.ts:12-26: the call, up to the await of listContributors.
BFCall ==
    /\ bf_pc = "idle"
    /\ \E threshold \in Thresholds : bf_threshold' = threshold
    /\ bf_startTime' = now
    /\ bf_busFactor' = 0
    /\ bf_pc' = "awaiting"
    /\ UNCHANGED <<bf_response, bf_result, now, runvars, aggvars>>

\* Time passes while the request is in flight; performance.now() never
\* goes back.
BFTick ==
    /\ bf_pc = "awaiting"
    /\ now + MsPerSecond \in ClockValues
    /\ now' = now + MsPerSecond
    /\ UNCHANGED <<bfvars, runvars, aggvars>>

\* busfactor.ts:23-88: listContributors settles and the function runs to
\* its end.
BFSettle ==
    /\ bf_pc = "awaiting"
    /\ \E response \in Responses :
         LET out == CalculateBusFactor(response, bf_threshold, bf_startTime, now)
         IN  /\ bf_response' = response
             /\ bf_busFactor' = out.busFactor
             /\ bf_result' = out.value
             /\ bf_pc' = IF out.settled = "resolved" THEN "returned" ELSE "rejected"
    /\ UNCHANGED <<bf_threshold, bf_startTime, now, runvars, aggvars>>

(***************************************************************************)
(* run.ts: the record of one repository (run.ts:63-88)                     *)
(***************************************************************************)
Metrics == {"responsiveness", "correctness", "busfactor", "license", "rampup"}

W_RESPONSIVENESS == 40
W_CORRECTNESS == 30
W_BUSFACTOR == 15
W_RAMPUP == 10
W_LICENSE == 5

\* The value taken as it is, the clamp left out.
NoClamp(v) == v

\* Math.max(v, 0), run.ts:64-68
ClampToZero(v) == IF v > 0 THEN v ELSE 0

\* run.ts:70, in ten-thousandths; r maps each metric to its value and latency.
NetScoreOf(r) ==
    W_RESPONSIVENESS * ClampToZero(r["responsiveness"].value)
        + W_CORRECTNESS * ClampToZero(r["correctness"].value)
        + W_BUSFACTOR * ClampToZero(r["busfactor"].value)
        + W_RAMPUP * ClampToZero(r["rampup"].value)
        + W_LICENSE * ClampToZero(r["license"].value)

\* The latencies clamped like the values before they are added.
ClampedLatencyOf(r) ==
    ClampToZero(r["responsiveness"].latency) + ClampToZero(r["correctness"].latency)
        + ClampToZero(r["busfactor"].latency) + ClampToZero(r["rampup"].latency)
        + ClampToZero(r["license"].latency)

\* run.ts:71
NetScoreLatencyOf(r) ==
    r["responsiveness"].latency + r["correctness"].latency + r["busfactor"].latency
        + r["rampup"].latency + r["license"].latency

\* run.ts:74-88
MakeRecord(url, r) ==
    [URL |-> url,
     NetScore |-> NetScoreOf(r),
     NetScore_Latency |-> NetScoreLatencyOf(r),
     RampUp |-> r["rampup"].value,
     RampUp_Latency |-> r["rampup"].latency,
     Correctness |-> r["correctness"].value,
     Correctness_Latency |-> r["correctness"].latency,
     BusFactor |-> r["busfactor"].value,
     BusFactor_Latency |-> r["busfactor"].latency,
     ResponsiveMaintainer |-> r["responsiveness"].value,
     ResponsiveMaintainer_Latency |-> r["responsiveness"].latency,
     License |-> r["license"].value,
     License_Latency |-> r["license"].latency]

(***************************************************************************)
(* run.ts: the lines of the URL file                                       *)
(*                                                                         *)
(* A line is the sequence of its segments between "/" characters: the      *)
(* empty line is <<"">>, "https://github.com/o/r" is                       *)
(* <<"https:", "", "github.com", "o", "r">>.                               *)
(***************************************************************************)
\* The segments that end with the text github.com.
HostSegments == {"github.com", "www.github.com"}

\* run.ts:38, filter(Boolean): the empty string is the only falsy line.
NonEmptyLines(lines) == SelectSeq(lines, LAMBDA l : l # <<"">>)

\* Where /github\.com\/([^\/]+)\/([^\/]+)/ matches in url: a segment ending
\* with github.com followed by two segments that are not empty.
MatchesAt(url, i) ==
    /\ i + 2 <= Len(url)
    /\ url[i] \in HostSegments
    /\ url[i + 1] # ""
    /\ url[i + 2] # ""

\* run.ts:103-106; null is written "".
extractOwnerAndRepo(url) ==
    IF \E i \in 1..Len(url) : MatchesAt(url, i)
    THEN LET first == CHOOSE i \in 1..Len(url) :
                          MatchesAt(url, i) /\ \A j \in 1..(i - 1) : ~MatchesAt(url, j)
         IN  <<url[first + 1], url[first + 2]>>
    ELSE <<"", "">>

\* run.ts:46, owner && repo
OwnerAndRepo(url) ==
    extractOwnerAndRepo(url)[1] # "" /\ extractOwnerAndRepo(url)[2] # ""

\* The lines a URL file is made of.
UrlLines ==
    { <<"">>,
      <<"not-a-url">>,
      <<"https:", "", "github.com", "o">>,
      <<"https:", "", "github.com", "o", "r">> }

RECURSIVE FilesUpTo(_)
FilesUpTo(n) ==
    IF n = 0 THEN {<<>>}
    ELSE LET shorter == FilesUpTo(n - 1)
         IN  shorter \cup {Append(f, l) : f \in {g \in shorter : Len(g) = n - 1}, l \in UrlLines}

Files == FilesUpTo(MaxLines)

(***************************************************************************)
(* run.ts: the evaluators' promises                                        *)
(***************************************************************************)
NotLaunched == [state |-> "none", value |-> 0, latency |-> 0]

Pending == [state |-> "pending", value |-> 0, latency |-> 0]

Fulfilled(value, latency) == [state |-> "fulfilled", value |-> value, latency |-> latency]

Rejected == [state |-> "rejected", value |-> 0, latency |-> 0]

\* What the DataSource answers the bus-factor evaluator with in a run of
\* the batch.
RunnerResponses == {ErrorResponse, ListResponse(Entries(<<60, 25, 15>>))}

\* run.ts:58: how the promise of calculateBusFactor(owner, repo, 50, octokit)
\* can settle, one second after the call.
BusFactorOutcomes ==
    {LET out == CalculateBusFactor(response, DefaultThreshold, 0, MsPerSecond)
     IN  IF out.settled = "resolved"
         THEN Fulfilled(out.value.busfactor, out.value.busfactory_latency)
         ELSE Rejected : response \in RunnerResponses}

\* The evaluators that meet an unexpected error in some repository of the
\* batch: the first and the last promise given to Promise.all.
MayThrow == {"responsiveness", "rampup"}

\* How the promise of one of the four other evaluators can settle: with a
\* value, or with an unexpected error.
OtherOutcomes(metric) ==
    IF metric \in MayThrow THEN {Fulfilled(100, 1), Rejected} ELSE {Fulfilled(100, 1)}

Outcomes(metric) ==
    IF metric = "busfactor" THEN BusFactorOutcomes ELSE OtherOutcomes(metric)

\* A combinator that waits for all five and is fulfilled whatever they did.
PromiseAllSettled(promises) ==
    IF \A m \in Metrics : promises[m].state \in {"fulfilled", "rejected"}
    THEN "fulfilled" ELSE "pending"

\* run.ts:55: how Promise.all over the five promises stands: it rejects with
\* the first rejection and is fulfilled once all five are.
PromiseAll(promises) ==
    IF \E m \in Metrics : promises[m].state = "rejected" THEN "rejected"
    ELSE IF \A m \in Metrics : promises[m].state = "fulfilled" THEN "fulfilled"
    ELSE "pending"

\* ! on the value validateToken(token) returns, run.ts:155: the value is a
\* Promise object, and every object is truthy.
NotOfPromise(promise) == FALSE

(***************************************************************************)
(* run.ts: the process                                                     *)
(***************************************************************************)
RunIdle ==
    /\ pc = "start"
    /\ exitCode = 0
    /\ tokenPromise = "none"
    /\ urls = <<>>
    /\ idx = 0
    /\ evals = <<>>
    /\ stdout = <<>>
    /\ stderr = <<>>

\* The first position from i on whose line gives an owner and a repo, or
\* Len(lines) + 1.
RECURSIVE NextRepo(_, _)
NextRepo(lines, i) ==
    IF i > Len(lines) THEN i
    ELSE IF OwnerAndRepo(lines[i]) THEN i
    ELSE NextRepo(lines, i + 1)

\* run.ts:94-96 for the lines from i to j - 1
InvalidLog(lines, i, j) == [k \in 1..(j - i) |-> <<"Invalid URL format", lines[i + k - 1]>>]

\* run.ts:43-98: the loop from position i on, up to its next await or to
\* process.exit(0); ev, out and err are the promises, the records and the
\* error log so far.
Loop(lines, i, ev, out, err) ==
    LET j == NextRepo(lines, i)
    IN  /\ idx' = j
        /\ stdout' = out
        /\ stderr' = err \o InvalidLog(lines, i, j)
        /\ IF j <= Len(lines)
           THEN /\ evals' = [ev EXCEPT ![j] = [m \in Metrics |-> Pending]]
                /\ pc' = "awaiting"
                /\ exitCode' = exitCode
           ELSE /\ evals' = ev
                /\ pc' = "exited"
                /\ exitCode' = 0

\* run.ts:141-143 and 14-28: install; npm runs and its callback exits.
MainInstall ==
    /\ pc = "start"
    /\ pc' = "installing"
    /\ UNCHANGED <<exitCode, tokenPromise, urls, idx, evals, stdout, stderr>>
    /\ UNCHANGED <<aggvars, bfvars, now>>

\* run.ts:20-27
InstallDone ==
    /\ pc = "installing"
    /\ \E code \in {0, 1} : exitCode' = code
    /\ pc' = "exited"
    /\ UNCHANGED <<tokenPromise, urls, idx, evals, stdout, stderr>>
    /\ UNCHANGED <<aggvars, bfvars, now>>

\* run.ts:144-146 and 109-117
MainTest ==
    /\ pc = "start"
    /\ pc' = "exited"
    /\ exitCode' = 0
    /\ UNCHANGED <<tokenPromise, urls, idx, evals, stdout, stderr>>
    /\ UNCHANGED <<aggvars, bfvars, now>>

\* run.ts:149-152: the argument names no file.
MainMissingFile ==
    /\ pc = "start"
    /\ pc' = "exited"
    /\ exitCode' = 1
    /\ stderr' = Append(stderr, <<"URL file does not exist", <<>>>>)
    /\ UNCHANGED <<tokenPromise, urls, idx, evals, stdout>>
    /\ UNCHANGED <<aggvars, bfvars, now>>

\* run.ts:147-159 and 31-61: the argument names a file.  validateToken is
\* called and returns its promise; the test of run.ts:155 is made on that
\* promise; processUrls reads the file and runs to its first await.
MainProcess ==
    /\ pc = "start"
    /\ \E file \in Files :
         LET lines == NonEmptyLines(file)
         IN  IF NotOfPromise("pending")
             THEN /\ pc' = "exited"
                  /\ exitCode' = 1
                  /\ tokenPromise' = "pending"
                  /\ UNCHANGED <<urls, idx, evals, stdout, stderr>>
             ELSE /\ tokenPromise' = "pending"
                  /\ urls' = lines
                  /\ Loop(lines, 1, [i \in 1..Len(lines) |-> [m \in Metrics |-> NotLaunched]],
                          <<>>, <<>>)
    /\ UNCHANGED <<aggvars, bfvars, now>>

\* run.ts:128-137: octokit.rest.users.getAuthenticated settles and
\* validateToken's promise resolves to true or to false.
TokenSettle ==
    /\ pc = "awaiting"
    /\ tokenPromise = "pending"
    /\ \E valid \in BOOLEAN : tokenPromise' = IF valid THEN "true" ELSE "false"
    /\ UNCHANGED <<pc, exitCode, urls, idx, evals, stdout, stderr>>
    /\ UNCHANGED <<aggvars, bfvars, now>>

\* One evaluator's promise settles.  When it is one of the repository the
\* loop awaits and it settles the Promise.all of run.ts:55, the loop goes
\* on in the same turn: run.ts:63-88 when all five are fulfilled, run.ts:90-92
\* at the first rejection, then the next lines up to the next await.
EvaluatorSettle ==
    /\ pc = "awaiting"
    /\ \E i \in 1..Len(urls), m \in Metrics :
         /\ evals[i][m].state = "pending"
         /\ \E outcome \in Outcomes(m) :
              LET ev == [evals EXCEPT ![i][m] = outcome]
                  all == PromiseAll(ev[i])
              IN  IF i = idx /\ all = "fulfilled"
                  THEN Loop(urls, idx + 1, ev,
                            Append(stdout, MakeRecord(urls[idx], ev[idx])), stderr)
                  ELSE IF i = idx /\ all = "rejected"
                  THEN Loop(urls, idx + 1, ev, stdout,
                            Append(stderr, <<"Error processing repository", urls[idx]>>))
                  ELSE /\ evals' = ev
                       /\ UNCHANGED <<pc, exitCode, idx, stdout, stderr>>
    /\ UNCHANGED <<tokenPromise, urls>>
    /\ UNCHANGED <<aggvars, bfvars, now>>

(***************************************************************************)
(* run.ts:63-88 applied to five given results                              *)
(***************************************************************************)
\* A successful result, or the failure pair.
OtherValues == {0, 50, 100}

Latencies == 0..MaxLatency

ResultsOf(values) ==
    {[value |-> SENTINEL, latency |-> SENTINEL]}
        \cup {[value |-> v, latency |-> l] : v \in values, l \in Latencies}

ResultSets ==
    [Metrics -> ResultsOf(OtherValues) \cup ResultsOf({0, 25, 50, 75, 100})]

AggInputs ==
    {r \in ResultSets :
        \A m \in Metrics \ {"busfactor"} : r[m] \in ResultsOf(OtherValues)}

NoRecord == MakeRecord(<<>>, [m \in Metrics |-> [value |-> 0, latency |-> 0]])

AggIdle ==
    /\ agg_pc = "idle"
    /\ agg_results = [m \in Metrics |-> [value |-> 0, latency |-> 0]]
    /\ agg_record = NoRecord

AggCombine ==
    /\ agg_pc = "idle"
    /\ agg_record' = MakeRecord(<<"https:", "", "github.com", "o", "r">>, agg_results)
    /\ agg_pc' = "done"
    /\ UNCHANGED <<agg_results, runvars, bfvars, now>>

(***************************************************************************)
(* Specifications                                                          *)
(***************************************************************************)
Init == RunIdle /\ AggIdle /\ BFIdle /\ now = 0

Next ==
    \/ MainInstall
    \/ InstallDone
    \/ MainTest
    \/ MainMissingFile
    \/ MainProcess
    \/ TokenSettle
    \/ EvaluatorSettle

\* The process of run.ts.
Spec == Init /\ [][Next]_vars

AggInit ==
    /\ RunIdle /\ BFIdle /\ now = 0
    /\ agg_pc = "idle"
    /\ agg_results \in AggInputs
    /\ agg_record = NoRecord

AggNext == AggCombine

\* run.ts:63-88 on every combination of results.
SpecAgg == AggInit /\ [][AggNext]_vars

BFInit == RunIdle /\ AggIdle /\ BFIdle /\ now \in ClockValues

BFNext == BFCall \/ BFTick \/ BFSettle

\* calculateBusFactor on every response.
SpecBF == BFInit /\ [][BFNext]_vars

(***************************************************************************)
(* Properties of calculateBusFactor                                        *)
(***************************************************************************)
ScaledValues == {0, 25, 50, 75, 100}

SentinelResult == [busfactor |-> SENTINEL, busfactory_latency |-> SENTINEL]

\* The commit counts of a response whose entries all carry a number.
IsNumeric(response) ==
    /\ response.kind = "list"
    /\ \A i \in 1..Len(response.data) : response.data[i].kind = "ok"

Counts(response) == [i \in 1..Len(response.data) |-> response.data[i].n]

Total(response) == SumSeq(Counts(response))

\* C4: calculateBusFactor never rejects, and its result is either the pair
\* (-1, -1) or a value of the scale together with a latency >= 0.
BusFactorResultWellFormed ==
    /\ bf_pc # "rejected"
    /\ bf_pc = "returned" =>
         \/ bf_result = SentinelResult
         \/ /\ bf_result.busfactor \in ScaledValues
            /\ bf_result.busfactory_latency >= 0

\* C4 witness: the DataSource raised an error after time had passed, and the
\* evaluator returned.
BusFactorFailureReturned ==
    /\ bf_pc = "returned"
    /\ bf_response.kind = "error"
    /\ now > bf_startTime
    /\ bf_result = SentinelResult

\* C5 (as claimed): a contributor list whose commits total 0 yields the
\* failure sentinel.
ZeroTotalYieldsSentinel ==
    (bf_pc = "returned" /\ IsNumeric(bf_response) /\ Total(bf_response) = 0)
        => bf_result = SentinelResult

\* The largest sum of k of the counts, by exact integer arithmetic.
TopSum(counts, k) ==
    LET picks == {S \in SUBSET (1..Len(counts)) : Cardinality(S) = k}
        SumOf(S) == SumSeq([i \in 1..Len(counts) |-> IF i \in S THEN counts[i] ELSE 0])
    IN  CHOOSE v \in {SumOf(S) : S \in picks} : \A S \in picks : SumOf(S) <= v

\* The smallest k >= 1 whose k largest counts reach threshold percent of the
\* total, exactly.
SmallestK(counts, threshold) ==
    CHOOSE k \in 1..Len(counts) :
        /\ TopSum(counts, k) * Percent >= threshold * SumSeq(counts)
        /\ \A j \in 1..(k - 1) : TopSum(counts, j) * Percent < threshold * SumSeq(counts)

\* C6 (as claimed): with a positive total, the raw bus-factor number is the
\* smallest k whose k largest counts sum to at least threshold percent.
RawIsSmallestK ==
    (bf_pc = "returned" /\ IsNumeric(bf_response) /\ Total(bf_response) > 0)
        => bf_busFactor = SmallestK(Counts(bf_response), bf_threshold)

CountsOf(l) == [i \in 1..Len(l) |-> l[i].n]

\* The raw number calculateBusFactor computes for list l.
RawOf(l, threshold) ==
    CalculateBusFactor(ListResponse(l), threshold, 0, 0).busFactor

\* The share of the k largest counts is TopK / total; beyond the list's
\* length it is the whole.
TopK(counts, k) == IF k >= Len(counts) THEN SumSeq(counts) ELSE TopSum(counts, k)

\* The distributions a call is compared with: the numeric lists with a
\* positive total, one list (the descending one) for each multiset of counts.
Distributions ==
    {l \in NumericLists :
        /\ SumSeq(CountsOf(l)) > 0
        /\ \A i \in 1..(Len(l) - 1) : l[i].n >= l[i + 1].n}

\* The longest list compared.
LongestList == CHOOSE n \in 0..Percent : \A l \in NumericLists : Len(l) <= n

\* The exact shares of a list of counts: top[k] is the sum of its k largest
\* counts (the share of the k largest is top[k] / total; beyond the list's
\* length it is the whole).
RECURSIVE TopSums(_, _)
TopSums(counts, n) ==
    IF n = 0 THEN <<>> ELSE Append(TopSums(counts, n - 1), TopK(counts, n))

SharesOf(counts) ==
    [top |-> TopSums(counts, LongestList), total |-> SumSeq(counts)]

\* Each distribution with its exact shares and with what calculateBusFactor
\* computes for it at each threshold.
Compared ==
    {[shares |-> SharesOf(CountsOf(l)), len |-> Len(l),
      raw |-> [t \in Thresholds |-> RawOf(l, t)]] : l \in Distributions}

\* a's top contributor holds a strictly larger share than b's.
LargerTopShare(a, b) == a.top[1] * b.total > b.top[1] * a.total

\* For every k, the k largest of a hold at least the share that the k
\* largest of b hold of b.
DominatesShares(a, b, len) ==
    \A k \in 1..len : a.top[k] * b.total >= b.top[k] * a.total

\* C7 (as claimed): a strictly larger top share gives a raw number that is
\* not larger.
TopShareMonotone ==
    (bf_pc = "returned" /\ IsNumeric(bf_response) /\ Total(bf_response) > 0) =>
        LET a == SharesOf(Counts(bf_response))
        IN  \A b \in Compared :
                LargerTopShare(a, b.shares) => bf_busFactor <= b.raw[bf_threshold]

\* C7 (amended): if for every k the k largest contributors of A hold at
\* least as large a share as the k largest of B, A's raw number is not larger.
DominatingSharesMonotone ==
    (bf_pc = "returned" /\ IsNumeric(bf_response) /\ Total(bf_response) > 0) =>
        LET a == SharesOf(Counts(bf_response))
        IN  \A b \in Compared :
                DominatesShares(a, b.shares, b.len)
                    => bf_busFactor <= b.raw[bf_threshold]

\* C7 witness: a returned call on a list that dominates a distribution with
\* a smaller top share, whose raw number is strictly larger.
DominatingPairReached ==
    /\ bf_pc = "returned" /\ IsNumeric(bf_response) /\ Total(bf_response) > 0
    /\ LET a == SharesOf(Counts(bf_response))
       IN  \E b \in Compared :
               /\ DominatesShares(a, b.shares, b.len)
               /\ LargerTopShare(a, b.shares)
               /\ bf_busFactor < b.raw[bf_threshold]

\* The scale as the documentation states it.
StepOf(raw) ==
    CASE raw <= 2 -> 0
      [] raw \in 3..4 -> 25
      [] raw \in 5..6 -> 50
      [] raw \in 7..8 -> 75
      [] OTHER -> 100

MaxRaw == 12

\* C8: on a successful evaluation the value is the step function of the raw
\* number, never -1, and the scale is non-decreasing.
ScaleIsStepFunction ==
    /\ (bf_pc = "returned" /\ ~MapContributors(bf_response).threw) =>
         /\ bf_result.busfactor = StepOf(bf_busFactor)
         /\ bf_result.busfactor # SENTINEL
    /\ \A r1 \in 0..MaxRaw : \A r2 \in r1..MaxRaw :
         ScaleBusFactor(r1) <= ScaleBusFactor(r2)

\* C8 witness: a successful evaluation whose raw number is above 8.
TopBandReached ==
    /\ bf_pc = "returned"
    /\ bf_busFactor > 8
    /\ bf_result.busfactor = 100

(***************************************************************************)
(* Properties of the record (SpecAgg)                                      *)
(***************************************************************************)
Failed(m) == agg_results[m].value = SENTINEL

\* What metric m contributes to the score: its value, or 0 when it failed.
Contribution(m) == IF Failed(m) THEN 0 ELSE agg_results[m].value

\* C1: NetScore is 0.40, 0.30, 0.15, 0.10 and 0.05 times the values of
\* responsiveness, correctness, bus factor, ramp-up and license, a failed
\* metric counting 0; the weights sum to 1 and NetScore lies in [0,1].
NetScoreIsClampedWeightedSum ==
    /\ W_RESPONSIVENESS + W_CORRECTNESS + W_BUSFACTOR + W_RAMPUP + W_LICENSE = 100
    /\ agg_pc = "done" =>
         /\ agg_record.NetScore =
                40 * Contribution("responsiveness") + 30 * Contribution("correctness")
                    + 15 * Contribution("busfactor") + 10 * Contribution("rampup")
                    + 5 * Contribution("license")
         /\ agg_record.NetScore >= 0
         /\ agg_record.NetScore <= 10000

\* C1 witness: a record built with the bus factor failed and every other
\* metric at 1; its NetScore is 0.85.
FailedMetricScored ==
    /\ agg_pc = "done"
    /\ Failed("busfactor")
    /\ \A m \in Metrics \ {"busfactor"} : agg_results[m].value = 100
    /\ agg_record.NetScore = 8500

\* The latency of metric m when it succeeded, 0 otherwise.
RealLatency(m) == IF Failed(m) THEN 0 ELSE agg_results[m].latency

\* C9: NetScore_Latency is the sum of the successful metrics' latencies minus
\* the number of failed metrics, and the five latency fields are the
\* evaluators' latencies.
NetScoreLatencyIsPlainSum ==
    agg_pc = "done" =>
        /\ agg_record.NetScore_Latency =
               RealLatency("responsiveness") + RealLatency("correctness")
                   + RealLatency("busfactor") + RealLatency("rampup")
                   + RealLatency("license") - Cardinality({m \in Metrics : Failed(m)})
        /\ agg_record.ResponsiveMaintainer_Latency = agg_results["responsiveness"].latency
        /\ agg_record.Correctness_Latency = agg_results["correctness"].latency
        /\ agg_record.BusFactor_Latency = agg_results["busfactor"].latency
        /\ agg_record.RampUp_Latency = agg_results["rampup"].latency
        /\ agg_record.License_Latency = agg_results["license"].latency

\* C9 witness: a record whose total latency is negative although a metric
\* succeeded with a positive latency.
NegativeTotalLatency ==
    /\ agg_pc = "done"
    /\ agg_record.NetScore_Latency < 0
    /\ \E m \in Metrics : ~Failed(m) /\ agg_results[m].latency > 0

(***************************************************************************)
(* Properties of the process (Spec)                                        *)
(***************************************************************************)
HasPending(i) == \E m \in Metrics : evals[i][m].state = "pending"

\* C2 (as claimed): while the batch runs, a repository the loop has left has
\* no evaluator pending, and no two repositories have evaluators pending at the
\* same time.
LeavesOnlyWhenAllSettled ==
    pc = "awaiting" =>
        /\ \A i \in 1..Len(urls) : i < idx => ~HasPending(i)
        /\ \A i, j \in 1..Len(urls) : (HasPending(i) /\ HasPending(j)) => i = j

\* The line at position i parses and its five evaluators all resolved.
AllResolved(i) ==
    /\ OwnerAndRepo(urls[i])
    /\ \A m \in Metrics : evals[i][m].state = "fulfilled"

\* The lines up to position n that parse and whose evaluators all resolved.
RECURSIVE ResolvedUrls(_)
ResolvedUrls(n) ==
    IF n = 0 THEN <<>>
    ELSE IF AllResolved(n) THEN Append(ResolvedUrls(n - 1), urls[n])
    ELSE ResolvedUrls(n - 1)

EmittedUrls == [k \in 1..Len(stdout) |-> stdout[k].URL]

\* C3: the records emitted are, in input order, those of the lines the loop
\* has passed that parse and whose five evaluators all resolved, and
\* processUrls exits only when it has passed every line.
EmittedAreTheResolvedLines ==
    tokenPromise # "none" =>
        /\ EmittedUrls = ResolvedUrls(IF idx > Len(urls) THEN Len(urls) ELSE idx - 1)
        /\ pc = "exited" => (idx = Len(urls) + 1 /\ exitCode = 0)

\* C3 witness: a batch of two valid lines, the first with an evaluator that
\* threw, has run to its end and emitted one record.
OneThrowingOfTwo ==
    /\ pc = "exited"
    /\ Len(urls) = 2
    /\ \A i \in 1..2 : OwnerAndRepo(urls[i])
    /\ \E m \in Metrics : evals[1][m].state = "rejected"
    /\ Len(stdout) = 1

\* C10 (as claimed): when validateToken resolves to false, no URL is
\* processed, no record is emitted, and the exit code is 1.
InvalidTokenStopsTheRun ==
    tokenPromise = "false" =>
        /\ idx = 0
        /\ stdout = <<>>
        /\ pc = "exited" => exitCode = 1

=============================================================================
